---- MODULE Spec2Model ----
(***************************************************************************)
(* Model of the main-window controller of svgcleaner-gui                   *)
(* (src/src/mainwindow.cpp): the job builder (genOutputPath, genCleanData, *)
(* resetTreeData), the Start/Pause/Stop handlers, the result sink          *)
(* (onResultReadyAt) and the completion handler (onFinished), together     *)
(* with the future watcher and the worker pool they drive.                 *)
(*                                                                         *)
(* A path is a sequence of one-character strings, so that QString          *)
(* operations (endsWith, chop, fileName, relativeFilePath) are computed    *)
(* character by character as the code computes them.                       *)
(***************************************************************************)
EXTENDS Integers, Sequences, FiniteSets, TLC

(***************************************************************************)
(* Bounds of the model.                                                    *)
(***************************************************************************)
\* largest number of top-level entries the tree holds
MaxTop == 2
\* largest number of batches dispatched in one behaviour
MaxBatches == 2
\* largest number of nodes whose flags differ from (enabled, checked) in a
\* tree drawn by InitBuild
MaxOff == 1

(***************************************************************************)
(* QString / QFileInfo / QDir helpers used by genOutputPath.               *)
(***************************************************************************)
\* QDir::separator() on the modelled platform
separator == <<"/">>

\* index of the last occurrence of character c in s, 0 when absent
LastIndexOf(s, c) ==
    LET I == {i \in 1..Len(s) : s[i] = c}
    IN  IF I = {} THEN 0 ELSE CHOOSE i \in I : \A j \in I : j <= i

\* QString::endsWith('z') || QString::endsWith('Z')
endsWithZ(s) == Len(s) > 0 /\ s[Len(s)] \in {"z", "Z"}

\* QString::chop(1)
chop1(s) == SubSeq(s, 1, Len(s) - 1)

\* the path returned with its last character kept
stripZ_Never(s) == s

\* the "remove SVGZ extension" step
stripZ(s) == IF endsWithZ(s) THEN chop1(s) ELSE s

\* QFileInfo(path).fileName()
fileName(path) == SubSeq(path, LastIndexOf(path, "/") + 1, Len(path))

\* QFileInfo(path).absolutePath() of an absolute, clean path
absolutePath(path) ==
    LET i == LastIndexOf(path, "/")
    IN  IF i <= 1 THEN <<"/">> ELSE SubSeq(path, 1, i - 1)

\* QFileInfo(path).completeBaseName(): the file name up to its last '.'
completeBaseName(path) ==
    LET n == fileName(path)
        i == LastIndexOf(n, ".")
    IN  IF i = 0 THEN n ELSE SubSeq(n, 1, i - 1)

\* QDir(dir).dirName()
dirName(dir) == fileName(dir)

\* the segments of a path, empty segments dropped
RECURSIVE Segments(_)
Segments(path) ==
    IF path = <<>> THEN <<>>
    ELSE LET i == LastIndexOf(path, "/")
             last == SubSeq(path, i + 1, Len(path))
             rest == IF i = 0 THEN <<>> ELSE SubSeq(path, 1, i - 1)
         IN  IF last = <<>> THEN Segments(rest)
             ELSE Append(Segments(rest), last)

\* segments joined by '/'
RECURSIVE JoinSegments(_)
JoinSegments(segs) ==
    IF segs = <<>> THEN <<>>
    ELSE IF Len(segs) = 1 THEN segs[1]
    ELSE segs[1] \o <<"/">> \o JoinSegments(Tail(segs))

\* length of the common prefix of two segment lists
RECURSIVE CommonPrefix(_, _)
CommonPrefix(a, b) ==
    IF a = <<>> \/ b = <<>> \/ Head(a) # Head(b) THEN 0
    ELSE 1 + CommonPrefix(Tail(a), Tail(b))

\* QDir(dir).relativeFilePath(file) for absolute paths: one ".." per
\* segment of dir below the common prefix, then the rest of file
relativeFilePath(dir, file) ==
    LET d == Segments(dir)
        f == Segments(file)
        k == CommonPrefix(d, f)
        ups == [i \in 1..(Len(d) - k) |-> <<".", ".">>]
        r == ups \o SubSeq(f, k + 1, Len(f))
    IN  IF r = <<>> THEN <<".">> ELSE JoinSegments(r)

(***************************************************************************)
(* The files and folders on disk that the user can add to the tree.        *)
(* A node is a file or a folder; a folder lists its children in the order  *)
(* the tree shows them.                                                    *)
(***************************************************************************)
Nodes == 1..10

NodePath(n) ==
    CASE n = 1  -> <<"/", "b", "/", "a", ".", "s", "v", "g">>
      [] n = 2  -> <<"/", "b", "/", "a", ".", "s", "v", "g", "z">>
      [] n = 3  -> <<"/", "c", "/", "a", ".", "s", "v", "g">>
      [] n = 4  -> <<"/", "r">>
      [] n = 5  -> <<"/", "r", "/", "a", ".", "s", "v", "g">>
      [] n = 6  -> <<"/", "r", "/", "s">>
      [] n = 7  -> <<"/", "r", "/", "s", "/", "a", ".", "s", "v", "g">>
      [] n = 8  -> <<"/", "q", "/", "t">>
      [] n = 9  -> <<"/", "q", "/", "t", "/", "a", ".", "s", "v", "g">>
      [] n = 10 -> <<"/", "b", "/", "a", ".", "S", "V", "G">>

isFolder(n) == n \in {4, 6, 8}

childrenList(n) ==
    CASE n = 4 -> <<5, 6>>
      [] n = 6 -> <<7>>
      [] n = 8 -> <<9>>
      [] OTHER -> <<>>

\* n and everything below it
RECURSIVE Subtree(_)
Subtree(n) ==
    {n} \cup UNION {Subtree(childrenList(n)[i]) : i \in 1..Len(childrenList(n))}

\* the folder holding n in the tree, 0 for a top-level entry
ParentOf(n) ==
    IF \E p \in Nodes : \E i \in 1..Len(childrenList(p)) : childrenList(p)[i] = n
    THEN CHOOSE p \in Nodes : \E i \in 1..Len(childrenList(p)) : childrenList(p)[i] = n
    ELSE 0

\* what the file dialog and the folder dialog of the window offer
DialogFiles == {1, 2}
DialogFolders == {8}
\* the top-level entries a tree drawn by InitBuild may hold
BuildEntries == {1, 2, 3, 10, 4, 8}

\* output folders: none set, a directory, a missing path, a plain file
OutputFolders ==
    { <<>>, <<"/", "o">>, <<"/", "n">>, <<"/", "f">> }
FsExists(p) == p \in { <<"/", "o">>, <<"/", "f">> }
FsIsDir(p) == p = <<"/", "o">>

Prefixes == { <<>>, <<"p">> }
Suffixes == { <<>>, <<"s">> }

SavingMethods == {"SelectFolder", "SameFolder", "Overwrite"}

\* Compressor::fromName: the type a stored name stands for and whether its
\* executable is found
CompressorNames == {"none", "7za", "zopfli"}
CompressorType(name) ==
    CASE name = "7za" -> "SevenZip"
      [] name = "zopfli" -> "Zopfli"
      [] OTHER -> "None"
CompressorAvailable(name) == name = "7za"

CheckStates == {"Unchecked", "PartiallyChecked", "Checked"}
ResultKinds == {"Ok", "Warning", "Error"}

VARIABLES
    \* --- TreeModel
    top,            \* the root item's children, in the order they were added
    enabledOf,      \* TreeItem::isEnabled per node
    checkOf,        \* TreeItem::checkState per node
    itemData,       \* cleaner data of a node: status, text, size, ratio, path
    \* --- settings store and line edits
    savingMethod, outputFolder, filePrefix, fileSuffix,
    lineEditFilePrefix, lineEditFileSuffix,
    useCompression, compressorName, jobsCount,
    \* --- widgets
    actionStartEnabled, pauseBtnVisible, actionStopEnabled,
    actionAddFilesEnabled, actionAddFolderEnabled, actionClearTreeEnabled,
    treeReadOnly,
    progressVisible, progressValue, progressMaximum,
    \* --- the watched future (m_cleaningWatcher) and the worker pool
    futJobs,        \* the Task::Config list given to QtConcurrent::mapped
    jobState,       \* per job: "queued", "running", "done"
    jobResult,      \* per job: the kind of the reported result, or "none"
    fRunning,       \* a future is set and its finished signal is not handled
    fPaused, fCanceled,
    orphans,        \* invocations in flight of a future no longer watched
    \* --- history
    batchNo,        \* number of futures set so far; the watched one is batchNo
    handled,        \* batches whose finished signal was handled
    invocations,    \* per job of the watched future: calls of cleanFile
    deliveries,     \* per job of the watched future: calls of onResultReadyAt
    lastEvent       \* the handler that ran last and its outcome

treeVars == <<top, enabledOf, checkOf, itemData>>
settingVars == <<savingMethod, outputFolder, filePrefix, fileSuffix,
                 lineEditFilePrefix, lineEditFileSuffix,
                 useCompression, compressorName, jobsCount>>
guiVars == <<actionStartEnabled, pauseBtnVisible, actionStopEnabled,
             actionAddFilesEnabled, actionAddFolderEnabled,
             actionClearTreeEnabled, treeReadOnly>>
progressVars == <<progressVisible, progressValue, progressMaximum>>
futureVars == <<futJobs, jobState, jobResult, fRunning, fPaused, fCanceled,
                orphans>>
historyVars == <<batchNo, handled, invocations, deliveries>>
vars == <<treeVars, settingVars, guiVars, progressVars, futureVars,
          historyVars, lastEvent>>

(***************************************************************************)
(* TreeItem / TreeModel.                                                   *)
(***************************************************************************)
\* TreeItem::resetCleanerData
ResetData ==
    [status |-> "None", statusText |-> "", sizeAfter |-> 0, ratio |-> 0,
     outPath |-> <<>>]

\* the nodes the tree holds
RECURSIVE SubtreesOf(_)
SubtreesOf(list) ==
    IF list = <<>> THEN {} ELSE Subtree(Head(list)) \cup SubtreesOf(Tail(list))

InTree == SubtreesOf(top)

\* TreeModel::isEmpty
isEmpty == top = <<>>

(***************************************************************************)
(* Job builder.                                                            *)
(***************************************************************************)
\* genOutputPath without the root folder's own name under Selected-folder
genOutputPath_NoRootName(outFolder, rootFolder, path, method, settings) ==
    LET outPath ==
            CASE method = "SelectFolder" ->
                    IF rootFolder = <<>>
                    THEN outFolder \o separator \o fileName(path)
                    ELSE outFolder \o separator
                         \o relativeFilePath(rootFolder, path)
              [] method = "SameFolder" ->
                    absolutePath(path) \o separator \o settings.FilePrefix
                    \o completeBaseName(path) \o settings.FileSuffix
                    \o <<".", "s", "v", "g">>
              [] OTHER -> path
    IN  stripZ(outPath)

\* genOutputPath; `settings` is the settings store it opens for the prefix
\* and the suffix
genOutputPath(outFolder, rootFolder, path, method, settings) ==
    LET outPath ==
            CASE method = "SelectFolder" ->
                    IF rootFolder = <<>>
                    THEN outFolder \o separator \o fileName(path)
                    ELSE outFolder \o separator \o dirName(rootFolder)
                         \o separator \o relativeFilePath(rootFolder, path)
              [] method = "SameFolder" ->
                    absolutePath(path) \o separator \o settings.FilePrefix
                    \o completeBaseName(path) \o settings.FileSuffix
                    \o <<".", "s", "v", "g">>
              [] OTHER -> path
    IN  stripZ(outPath)

\* genCleanData with the check state tested for files only, so that every
\* enabled folder is descended into
RECURSIVE genCleanData_FoldersNotGated(_, _, _, _, _, _)
genCleanData_FoldersNotGated(list, method, outFolder, rootFolder, data, settings) ==
    IF list = <<>> THEN [rootFolder |-> rootFolder, data |-> data]
    ELSE
        LET item == Head(list)
        IN  IF ~enabledOf[item]
               \/ (~isFolder(item) /\ checkOf[item] # "Checked")
            THEN genCleanData_FoldersNotGated(Tail(list), method, outFolder,
                                              rootFolder, data, settings)
            ELSE IF isFolder(item)
            THEN LET rf == IF rootFolder = <<>> THEN NodePath(item)
                           ELSE rootFolder
                     sub == genCleanData_FoldersNotGated(
                                childrenList(item), method, outFolder, rf,
                                data, settings)
                 IN  genCleanData_FoldersNotGated(Tail(list), method,
                        outFolder, sub.rootFolder, sub.data, settings)
            ELSE LET conf == [inputPath |-> NodePath(item),
                              outputPath |-> genOutputPath(outFolder,
                                              rootFolder, NodePath(item),
                                              method, settings),
                              treeItem |-> item]
                 IN  genCleanData_FoldersNotGated(Tail(list), method,
                        outFolder, rootFolder, Append(data, conf), settings)

\* genCleanData over the children `list` of one item; rootFolder and data
\* are the reference parameters, returned as a record
RECURSIVE genCleanData(_, _, _, _, _, _)
genCleanData(list, method, outFolder, rootFolder, data, settings) ==
    IF list = <<>> THEN [rootFolder |-> rootFolder, data |-> data]
    ELSE
        LET item == Head(list)
        IN  IF ~enabledOf[item] \/ checkOf[item] # "Checked"
            THEN genCleanData(Tail(list), method, outFolder, rootFolder, data,
                              settings)
            ELSE IF isFolder(item)
            THEN LET rf == IF rootFolder = <<>> THEN NodePath(item)
                           ELSE rootFolder
                     sub == genCleanData(childrenList(item), method,
                                         outFolder, rf, data, settings)
                 IN  genCleanData(Tail(list), method, outFolder,
                                  sub.rootFolder, sub.data, settings)
            ELSE LET conf == [inputPath |-> NodePath(item),
                              outputPath |-> genOutputPath(outFolder,
                                              rootFolder, NodePath(item),
                                              method, settings),
                              treeItem |-> item]
                 IN  genCleanData(Tail(list), method, outFolder, rootFolder,
                                  Append(data, conf), settings)

\* the job list onStart builds from the tree once saveSettings has stored
\* the prefix and the suffix of the line edits
BuiltJobs ==
    genCleanData(top, savingMethod, outputFolder, <<>>, <<>>,
                 [FilePrefix |-> lineEditFilePrefix,
                  FileSuffix |-> lineEditFileSuffix]).data

\* resetTreeData: every file of the tree gets resetCleanerData
resetTreeData ==
    [n \in Nodes |->
        IF n \in InTree /\ ~isFolder(n) THEN ResetData ELSE itemData[n]]

\* the SVG/SVGZ check with the input paths compared as they are
RECURSIVE FindDuplFile_NoChop(_, _)
FindDuplFile_NoChop(data, set) ==
    IF data = <<>> THEN <<>>
    ELSE LET path == Head(data).inputPath
         IN  IF path \in set THEN path
             ELSE FindDuplFile_NoChop(Tail(data), set \cup {path})

\* the SVG/SVGZ check of onStart: the first input path, trailing 'z' or 'Z'
\* chopped, that an earlier job of the list already has; <<>> when none
RECURSIVE FindDuplFile(_, _)
FindDuplFile(data, set) ==
    IF data = <<>> THEN <<>>
    ELSE LET path == stripZ(Head(data).inputPath)
         IN  IF path \in set THEN path
             ELSE FindDuplFile(Tail(data), set \cup {path})

duplFile(data) == FindDuplFile(data, {})


(***************************************************************************)
(* Widgets.                                                                *)
(***************************************************************************)
\* setEnableGui(flag): the four widgets of it that the model holds
setEnableGui(flag) ==
    /\ actionAddFilesEnabled' = flag
    /\ actionAddFolderEnabled' = flag
    /\ actionClearTreeEnabled' = flag
    /\ treeReadOnly' = ~flag

\* the state of the controller, read off the watched future
ctrl ==
    IF ~fRunning THEN "Idle"
    ELSE IF fCanceled THEN "Stopping"
    ELSE IF fPaused THEN "Paused"
    ELSE "Running"

\* the jobs of the watched future that are inside cleanFile
RunningJobs == {j \in 1..Len(futJobs) : jobState[j] = "running"}

(***************************************************************************)
(* MainWindow::onStart.                                                    *)
(***************************************************************************)
\* the output-folder test without isDir()
invalidOutputFolder_NoDirTest(outFolder) ==
    outFolder = <<>> \/ ~FsExists(outFolder)

\* the output-folder test of the "selected folder" policy
invalidOutputFolder(outFolder) ==
    outFolder = <<>> \/ ~FsIsDir(outFolder) \/ ~FsExists(outFolder)

\* the prefix/suffix test of the "same folder" policy
missingPrefixSuffix(prefix, suffix) == prefix = <<>> /\ suffix = <<>>

\* the compressor test: compression is on, the stored name stands for a
\* compressor, and its executable is not found
compressorMissing ==
    /\ useCompression
    /\ CompressorType(compressorName) # "None"
    /\ ~CompressorAvailable(compressorName)

\* the compressor type copied into every job
jobCompressorType ==
    IF useCompression THEN CompressorType(compressorName) ELSE "None"

\* a rejected Start: nothing but the last event (and what the caller has
\* already set) changes
StartRejected(why) ==
    /\ lastEvent' = why
    /\ UNCHANGED <<guiVars, progressVars, futureVars, historyVars>>

\* the tail of onStart: the jobs get the options, the widgets switch to
\* "running", and the future of QtConcurrent::mapped is given to the
\* watcher; invocations still in flight of the future watched until now
\* go on in the pool
StartAccepted(data) ==
    /\ batchNo < MaxBatches
    /\ progressValue' = 0
    /\ progressMaximum' = Len(data)
    /\ progressVisible' = TRUE
    /\ setEnableGui(FALSE)
    /\ pauseBtnVisible' = TRUE
    /\ actionStopEnabled' = TRUE
    /\ actionStartEnabled' = actionStartEnabled
    /\ futJobs' = [i \in 1..Len(data) |->
                     [inputPath |-> data[i].inputPath,
                      outputPath |-> data[i].outputPath,
                      treeItem |-> data[i].treeItem,
                      compressorType |-> jobCompressorType]]
    /\ jobState' = [i \in 1..Len(data) |-> "queued"]
    /\ jobResult' = [i \in 1..Len(data) |-> "none"]
    /\ fRunning' = TRUE
    /\ fPaused' = FALSE
    /\ fCanceled' = FALSE
    /\ orphans' = orphans \cup
                    {<<batchNo, futJobs[j].treeItem>> : j \in RunningJobs}
    /\ batchNo' = batchNo + 1
    /\ handled' = handled
    /\ invocations' = [i \in 1..Len(data) |-> 0]
    /\ deliveries' = [i \in 1..Len(data) |-> 0]
    /\ lastEvent' = "Start:accepted"

onStart ==
    /\ actionStartEnabled /\ ~pauseBtnVisible
    /\ IF fPaused
       THEN \* m_cleaningWatcher->resume()
            /\ fPaused' = FALSE
            /\ pauseBtnVisible' = TRUE
            /\ lastEvent' = "Start:resumed"
            /\ UNCHANGED <<treeVars, settingVars, progressVars, historyVars,
                           actionStartEnabled, actionStopEnabled,
                           actionAddFilesEnabled, actionAddFolderEnabled,
                           actionClearTreeEnabled, treeReadOnly,
                           futJobs, jobState, jobResult, fRunning, fCanceled,
                           orphans>>
       ELSE \* saveSettings()
            /\ filePrefix' = lineEditFilePrefix
            /\ fileSuffix' = lineEditFileSuffix
            /\ UNCHANGED <<savingMethod, outputFolder, lineEditFilePrefix,
                           lineEditFileSuffix, useCompression,
                           compressorName, jobsCount>>
            /\ UNCHANGED <<top, enabledOf, checkOf>>
            /\ IF savingMethod = "SelectFolder"
                  /\ invalidOutputFolder(outputFolder)
               THEN itemData' = itemData
                    /\ StartRejected("Start:invalidFolder")
               ELSE IF savingMethod = "SameFolder"
                       /\ missingPrefixSuffix(lineEditFilePrefix,
                                              lineEditFileSuffix)
               THEN itemData' = itemData
                    /\ StartRejected("Start:noPrefixSuffix")
               ELSE IF compressorMissing
               THEN itemData' = itemData
                    /\ StartRejected("Start:noCompressor")
               ELSE /\ itemData' = resetTreeData
                    /\ IF BuiltJobs = <<>>
                       THEN StartRejected("Start:noFiles")
                       ELSE IF duplFile(BuiltJobs) # <<>>
                       THEN StartRejected("Start:duplicate")
                       ELSE StartAccepted(BuiltJobs)

(***************************************************************************)
(* MainWindow::onPause, onStop.                                            *)
(***************************************************************************)
\* onPause that switches the buttons and leaves the future running
watcherPause_NotCalled == fPaused' = fPaused

\* QFutureWatcher::pause(): the Paused flag of the watched future
watcherPause == fPaused' = TRUE

\* QFutureWatcher::cancel(): nothing on a cancelled future; otherwise the
\* future leaves Paused and becomes Canceled
watcherCancel ==
    IF fCanceled THEN UNCHANGED <<fPaused, fCanceled>>
    ELSE fPaused' = FALSE /\ fCanceled' = TRUE

onPause ==
    /\ pauseBtnVisible
    /\ pauseBtnVisible' = FALSE
    /\ watcherPause
    /\ lastEvent' = "Pause"
    /\ UNCHANGED <<treeVars, settingVars, progressVars, historyVars,
                   actionStartEnabled, actionStopEnabled,
                   actionAddFilesEnabled, actionAddFolderEnabled,
                   actionClearTreeEnabled, treeReadOnly,
                   futJobs, jobState, jobResult, fRunning, fCanceled,
                   orphans>>

onStop ==
    /\ actionStopEnabled
    /\ actionStopEnabled' = FALSE
    /\ progressMaximum' = 0
    /\ watcherCancel
    /\ lastEvent' = "Stop"
    /\ UNCHANGED <<treeVars, settingVars, historyVars,
                   progressVisible, progressValue,
                   actionStartEnabled, pauseBtnVisible,
                   actionAddFilesEnabled, actionAddFolderEnabled,
                   actionClearTreeEnabled, treeReadOnly,
                   futJobs, jobState, jobResult, fRunning, orphans>>


(***************************************************************************)
(* The worker pool behind QtConcurrent::mapped(data, &Task::cleanFile).    *)
(***************************************************************************)
\* a pool thread takes the next job of the list: not while the future is
\* paused or cancelled, and never more than jobsCount invocations at once
WorkerStart ==
    /\ fRunning /\ ~fPaused /\ ~fCanceled
    /\ Cardinality(RunningJobs) + Cardinality(orphans) < jobsCount
    /\ \E j \in 1..Len(futJobs) :
        /\ jobState[j] = "queued"
        /\ \A i \in 1..(j - 1) : jobState[i] # "queued"
        /\ jobState' = [jobState EXCEPT ![j] = "running"]
        /\ invocations' = [invocations EXCEPT ![j] = @ + 1]
    /\ lastEvent' = "Worker"
    /\ UNCHANGED <<treeVars, settingVars, guiVars, progressVars,
                   futJobs, jobResult, fRunning, fPaused, fCanceled, orphans,
                   batchNo, handled, deliveries>>

\* an invocation of cleanFile returns; its result is reported unless the
\* future is cancelled
WorkerFinish ==
    /\ fRunning
    /\ \E j \in RunningJobs : \E kind \in ResultKinds :
        /\ jobState' = [jobState EXCEPT ![j] = "done"]
        /\ jobResult' = [jobResult EXCEPT
                           ![j] = IF fCanceled THEN "none" ELSE kind]
    /\ lastEvent' = "Worker"
    /\ UNCHANGED <<treeVars, settingVars, guiVars, progressVars,
                   futJobs, fRunning, fPaused, fCanceled, orphans,
                   historyVars>>

\* an invocation of a future that is no longer watched returns
OrphanFinish ==
    /\ \E o \in orphans : orphans' = orphans \ {o}
    /\ lastEvent' = "Worker"
    /\ UNCHANGED <<treeVars, settingVars, guiVars, progressVars,
                   futJobs, jobState, jobResult, fRunning, fPaused,
                   fCanceled, historyVars>>

(***************************************************************************)
(* MainWindow::onResultReadyAt, onFinished.                                *)
(***************************************************************************)
\* onResultReadyAt that returns after the Ok data without looking at the
\* kind of a result that is no error
recordResult_WarningAsOk(old, kind, conf) ==
    IF kind = "Error"
    THEN [old EXCEPT !.status = "Error", !.statusText = "error"]
    ELSE [old EXCEPT !.status = "Ok", !.sizeAfter = 1, !.ratio = 1,
                     !.outPath = conf.outputPath]

\* what onResultReadyAt writes into the item of a result of kind `kind`
\* for the job `conf`
recordResult(old, kind, conf) ==
    IF kind = "Error"
    THEN [old EXCEPT !.status = "Error", !.statusText = "error"]
    ELSE LET d == [old EXCEPT !.status = "Ok", !.sizeAfter = 1, !.ratio = 1,
                              !.outPath = conf.outputPath]
         IN  IF kind = "Ok" THEN [d EXCEPT !.status = "Ok"]
             ELSE [d EXCEPT !.status = "Warning", !.statusText = "warning"]

\* the watcher delivers resultReadyAt(idx): not for a paused future (the
\* call is held back until resume) and not for a cancelled one
onResultReadyAt ==
    /\ fRunning /\ ~fPaused /\ ~fCanceled
    /\ \E idx \in 1..Len(futJobs) :
        /\ jobState[idx] = "done" /\ jobResult[idx] # "none"
        /\ deliveries[idx] = 0
        /\ progressValue' =
              Cardinality({j \in 1..Len(futJobs) : jobState[j] = "done"})
        /\ itemData' = [itemData EXCEPT ![futJobs[idx].treeItem] =
                          recordResult(@, jobResult[idx], futJobs[idx])]
        /\ deliveries' = [deliveries EXCEPT ![idx] = @ + 1]
    /\ lastEvent' = "Result"
    /\ UNCHANGED <<top, enabledOf, checkOf, settingVars, guiVars,
                   progressVisible, progressMaximum, futureVars,
                   batchNo, handled, invocations>>

\* the watched future has finished: no invocation of it is in flight and
\* either it was cancelled (and a pool thread has seen that) or every job
\* is done and every result was delivered
futureFinished ==
    /\ fRunning /\ ~fPaused
    /\ RunningJobs = {}
    /\ \/ /\ fCanceled
          /\ \/ \E j \in 1..Len(futJobs) : jobState[j] # "queued"
             \/ Cardinality(orphans) < jobsCount
       \/ \A j \in 1..Len(futJobs) :
             jobState[j] = "done" /\ deliveries[j] = 1

onFinished ==
    /\ futureFinished
    \* onStop()
    /\ actionStopEnabled' = FALSE
    /\ progressMaximum' = 0
    /\ watcherCancel
    /\ progressVisible' = FALSE
    /\ setEnableGui(TRUE)
    /\ pauseBtnVisible' = FALSE
    /\ fRunning' = FALSE
    /\ handled' = handled \cup {batchNo}
    /\ lastEvent' = IF fCanceled THEN "Finished:canceled"
                    ELSE "Finished:completed"
    \* the job list and the results of a finished future are not read
    \* again: the next setFuture replaces them
    /\ futJobs' = <<>>
    /\ jobState' = <<>>
    /\ jobResult' = <<>>
    /\ invocations' = <<>>
    /\ deliveries' = <<>>
    /\ UNCHANGED <<treeVars, settingVars, progressValue, actionStartEnabled,
                   orphans, batchNo>>

(***************************************************************************)
(* Tree editing.                                                           *)
(***************************************************************************)
\* TreeModel::addFile / addFolder: a new top-level entry, enabled, checked
\* and without cleaner data, or nothing when it is already in the tree
addEntry(n) ==
    IF n \in InTree
    THEN UNCHANGED treeVars
    ELSE /\ top' = Append(top, n)
         /\ enabledOf' = [m \in Nodes |->
                            IF m \in Subtree(n) THEN TRUE ELSE enabledOf[m]]
         /\ checkOf' = [m \in Nodes |->
                          IF m \in Subtree(n) THEN "Checked" ELSE checkOf[m]]
         /\ itemData' = [m \in Nodes |->
                           IF m \in Subtree(n) THEN ResetData ELSE itemData[m]]

\* recalcTable
recalcTable == actionStartEnabled' = ~isEmpty'

editFrame ==
    /\ lastEvent' = "Edit"
    /\ UNCHANGED <<settingVars, progressVars, futureVars, historyVars,
                   pauseBtnVisible, actionStopEnabled,
                   actionAddFilesEnabled, actionAddFolderEnabled,
                   actionClearTreeEnabled, treeReadOnly>>

on_actionAddFiles_triggered ==
    /\ actionAddFilesEnabled
    /\ Len(top) < MaxTop
    /\ \E f \in DialogFiles : addEntry(f)
    /\ recalcTable
    /\ editFrame

\* the Open shortcut: onAddFiles() calls actionAddFiles->trigger(), which
\* emits triggered() whether or not the action is enabled
onAddFiles ==
    /\ Len(top) < MaxTop
    /\ \E f \in DialogFiles : addEntry(f)
    /\ recalcTable
    /\ editFrame

on_actionAddFolder_triggered ==
    /\ actionAddFolderEnabled
    /\ Len(top) < MaxTop
    /\ \E d \in DialogFolders : addEntry(d)
    /\ recalcTable
    /\ editFrame

\* a file or a folder dropped on the tree view
fileDropped ==
    /\ ~treeReadOnly
    /\ Len(top) < MaxTop
    /\ \E f \in DialogFiles : addEntry(f)
    /\ recalcTable
    /\ editFrame

folderDropped ==
    /\ ~treeReadOnly
    /\ Len(top) < MaxTop
    /\ \E d \in DialogFolders : addEntry(d)
    /\ recalcTable
    /\ editFrame

\* TreeModel::clear: every item is destroyed
on_actionClearTree_triggered ==
    /\ actionClearTreeEnabled
    /\ top' = <<>>
    /\ enabledOf' = [m \in Nodes |-> TRUE]
    /\ checkOf' = [m \in Nodes |-> "Checked"]
    /\ itemData' = [m \in Nodes |-> ResetData]
    /\ recalcTable
    /\ editFrame

\* the user clicks the check box of an item of the tree view, which checks
\* or unchecks that item
itemChecked ==
    /\ ~treeReadOnly
    /\ \E n \in InTree : \E st \in {"Unchecked", "Checked"} :
        checkOf' = [checkOf EXCEPT ![n] = st]
    /\ UNCHANGED <<top, enabledOf, itemData, actionStartEnabled>>
    /\ editFrame

\* the user picks an existing directory as the output folder
on_btnSelectFolder_clicked ==
    /\ actionAddFilesEnabled
    /\ \E folder \in {p \in OutputFolders : FsIsDir(p)} :
          outputFolder' = folder
    /\ lastEvent' = "Edit"
    /\ UNCHANGED <<treeVars, guiVars, progressVars, futureVars, historyVars,
                   savingMethod, filePrefix, fileSuffix, lineEditFilePrefix,
                   lineEditFileSuffix, useCompression, compressorName,
                   jobsCount>>

(***************************************************************************)
(* Initial states.                                                         *)
(***************************************************************************)
\* the widgets, the watcher and the history after the constructor
InitWindow ==
    /\ actionStartEnabled = ~isEmpty
    /\ pauseBtnVisible = FALSE
    /\ actionStopEnabled = FALSE
    /\ actionAddFilesEnabled = TRUE
    /\ actionAddFolderEnabled = TRUE
    /\ actionClearTreeEnabled = TRUE
    /\ treeReadOnly = FALSE
    /\ progressVisible = FALSE
    /\ progressValue = 0
    /\ progressMaximum = 0
    /\ futJobs = <<>>
    /\ jobState = <<>>
    /\ jobResult = <<>>
    /\ fRunning = FALSE
    /\ fPaused = FALSE
    /\ fCanceled = FALSE
    /\ orphans = {}
    /\ batchNo = 0
    /\ handled = {}
    /\ invocations = <<>>
    /\ deliveries = <<>>
    /\ lastEvent = "init"

\* the window as constructed: an empty tree; the settings are what an
\* earlier run stored, and loadSettings copies prefix and suffix into the
\* line edits
Init ==
    /\ top = <<>>
    /\ enabledOf = [n \in Nodes |-> TRUE]
    /\ checkOf = [n \in Nodes |-> "Checked"]
    /\ itemData = [n \in Nodes |-> ResetData]
    /\ savingMethod = "SelectFolder"
    /\ outputFolder \in { <<>>, <<"/", "o">> }
    /\ filePrefix = <<"p">>
    /\ fileSuffix = <<>>
    /\ lineEditFilePrefix = filePrefix
    /\ lineEditFileSuffix = fileSuffix
    /\ useCompression = FALSE
    /\ compressorName = "none"
    /\ jobsCount \in {1, 2}
    /\ InitWindow

Next ==
    \/ onStart
    \/ onPause
    \/ onStop
    \/ WorkerStart
    \/ WorkerFinish
    \/ OrphanFinish
    \/ onResultReadyAt
    \/ onFinished
    \/ on_actionAddFiles_triggered
    \/ onAddFiles
    \/ on_actionAddFolder_triggered
    \/ fileDropped
    \/ folderDropped
    \/ on_actionClearTree_triggered
    \/ itemChecked
    \/ on_btnSelectFolder_clicked

Spec == Init /\ [][Next]_vars


(***************************************************************************)
(* Specifications of the job builder: the window holds a tree and stored   *)
(* settings drawn from bounded sets, and the user presses Start.           *)
(***************************************************************************)
\* the sequences of at most k distinct elements of S
TopSeqs(S, k) ==
    {q \in UNION {[1..n -> S] : n \in 0..k} :
        \A i, j \in 1..Len(q) : i # j => q[i] # q[j]}

\* the flag pairs of an item other than (enabled, checked)
OffFlags(n) ==
    {f \in [en : BOOLEAN, ck : CheckStates] :
        /\ ~(f.en /\ f.ck = "Checked")
        /\ f.ck = "PartiallyChecked" => isFolder(n)}

\* a tree over `entries` in which at most MaxOff items are disabled or not
\* checked, no cleaner data recorded yet
InitTree(entries) ==
    /\ top \in TopSeqs(entries, MaxTop)
    /\ \E off \in {o \in SUBSET InTree : Cardinality(o) <= MaxOff} :
         \E f \in [off -> [en : BOOLEAN, ck : CheckStates]] :
            /\ \A n \in off : f[n] \in OffFlags(n)
            /\ enabledOf = [n \in Nodes |-> IF n \in off THEN f[n].en ELSE TRUE]
            /\ checkOf = [n \in Nodes |->
                            IF n \in off THEN f[n].ck ELSE "Checked"]
    /\ itemData = [n \in Nodes |-> ResetData]

\* every tree over the entries on disk, every policy, every prefix and
\* suffix, a valid output folder, no compression
InitBuild ==
    /\ InitTree(BuildEntries)
    /\ savingMethod \in SavingMethods
    /\ outputFolder = <<"/", "o">>
    /\ filePrefix \in Prefixes
    /\ fileSuffix \in Suffixes
    /\ lineEditFilePrefix = filePrefix
    /\ lineEditFileSuffix = fileSuffix
    /\ useCompression = FALSE
    /\ compressorName = "none"
    /\ jobsCount = 2
    /\ InitWindow

\* every stored setting, over the trees the dialogs can build
InitStart ==
    /\ InitTree(DialogFiles \cup DialogFolders)
    /\ savingMethod \in SavingMethods
    /\ outputFolder \in OutputFolders
    /\ filePrefix \in Prefixes
    /\ fileSuffix \in Suffixes
    /\ lineEditFilePrefix = filePrefix
    /\ lineEditFileSuffix = fileSuffix
    /\ useCompression \in BOOLEAN
    /\ compressorName \in CompressorNames
    /\ jobsCount \in {1, 2}
    /\ InitWindow

NextStart == onStart

SpecBuild == InitBuild /\ [][NextStart]_vars

SpecStart == InitStart /\ [][NextStart]_vars

\* the pool runs its threads and the event loop delivers the queued
\* signals whenever the future is not paused (strong fairness: pausing
\* and resuming again and again does not starve them), and a paused batch
\* is resumed
Resume == fPaused /\ onStart

FairSpec ==
    /\ Spec
    /\ SF_vars(WorkerStart)
    /\ SF_vars(WorkerFinish)
    /\ WF_vars(OrphanFinish)
    /\ SF_vars(onResultReadyAt)
    /\ SF_vars(onFinished)
    /\ WF_vars(Resume)


(***************************************************************************)
(* Properties.                                                             *)
(***************************************************************************)
\* the outcomes of a Start that went past the isPaused test
FullStartEvents ==
    {"Start:invalidFolder", "Start:noPrefixSuffix", "Start:noCompressor",
     "Start:noFiles", "Start:duplicate", "Start:accepted"}

\* a path with the letters of its file extension in lower case
LowerChar(c) ==
    CASE c = "S" -> "s" [] c = "V" -> "v" [] c = "G" -> "g"
      [] c = "Z" -> "z" [] OTHER -> c
IgnoreExtCase(path) ==
    LET dot == LastIndexOf(path, ".")
    IN  [i \in 1..Len(path) |->
            IF dot > 0 /\ i > dot /\ dot > LastIndexOf(path, "/")
            THEN LowerChar(path[i]) ELSE path[i]]

\* two jobs of the list have the same input path once a trailing 'z' or
\* 'Z' is removed
HasSvgzCollision(data) ==
    \E i, j \in 1..Len(data) :
        i # j /\ stripZ(data[i].inputPath) = stripZ(data[j].inputPath)

\* the files of the tree that are enabled and checked
CheckedFiles ==
    {n \in InTree : ~isFolder(n) /\ enabledOf[n] /\ checkOf[n] = "Checked"}

\* n and the folders above it
RECURSIVE AncestorsOrSelf(_)
AncestorsOrSelf(n) ==
    IF n = 0 THEN {} ELSE {n} \cup AncestorsOrSelf(ParentOf(n))

\* the files of the tree that are enabled and checked and lie below
\* enabled, checked folders only
ReachableFiles ==
    {n \in CheckedFiles :
        \A m \in AncestorsOrSelf(n) : enabledOf[m] /\ checkOf[m] = "Checked"}

\* the list holds exactly one job for every item of `files` and no other
OneJobEach(data, files) ==
    LET items == {data[i].treeItem : i \in 1..Len(data)}
    IN  items = files /\ Cardinality(items) = Len(data)

\* C1: in every dispatched batch the output paths of the jobs are pairwise
\* distinct, also with the case of the file extension ignored.
C1_DistinctOutputPaths ==
    fRunning =>
        \A i, j \in 1..Len(futJobs) :
            i # j => IgnoreExtCase(futJobs[i].outputPath)
                        # IgnoreExtCase(futJobs[j].outputPath)

\* C2: a Start whose job list holds two inputs that are equal after one
\* trailing 'z' or 'Z' is removed is rejected: the watcher gets no future,
\* no job is invoked and the controller stays in its state.
C2_SvgzCollisionRejected ==
    [][(lastEvent' \in FullStartEvents /\ HasSvgzCollision(BuiltJobs))
        => /\ lastEvent' # "Start:accepted"
           /\ UNCHANGED <<futureVars, batchNo, invocations, deliveries>>
           /\ ctrl' = ctrl]_vars

C2_Witness ==
    /\ lastEvent = "Start:duplicate"
    /\ HasSvgzCollision(BuiltJobs)
    /\ ctrl = "Idle"

\* C3 as stated: the job list of an accepted Start holds exactly one job
\* for every enabled, checked file of the tree and none for another node,
\* whatever the check state of the folders above it.
C3_OneJobPerCheckedFile ==
    lastEvent = "Start:accepted" => OneJobEach(futJobs, CheckedFiles)

\* C3 amended: the job list holds exactly one job for every enabled, checked
\* file whose folders, up to the top of the tree, are all enabled and
\* checked, and none for another node; a Start rejected for an empty job
\* list has no such file.
C3_OneJobPerReachableFile ==
    /\ lastEvent = "Start:accepted" => OneJobEach(futJobs, ReachableFiles)
    /\ lastEvent = "Start:noFiles" => ReachableFiles = {}

C3_Witness ==
    /\ lastEvent = "Start:accepted"
    /\ \E n \in CheckedFiles : n \notin ReachableFiles
    /\ \E n \in ReachableFiles : ParentOf(n) # 0

\* the pre-dispatch conditions C4 lists
C4_RejectCondition ==
    \/ /\ savingMethod = "SelectFolder"
       /\ \/ outputFolder = <<>>
          \/ ~FsExists(outputFolder)
          \/ ~FsIsDir(outputFolder)
    \/ /\ savingMethod = "SameFolder"
       /\ lineEditFilePrefix = <<>> /\ lineEditFileSuffix = <<>>
    \/ /\ useCompression
       /\ CompressorType(compressorName) # "None"
       /\ ~CompressorAvailable(compressorName)
    \/ BuiltJobs = <<>>

\* C4: a Start in Idle is rejected (nothing dispatched, tree editing still
\* enabled, controller Idle) when one of the listed conditions holds, and
\* otherwise, without an SVG/SVGZ collision, accepted: the controller is
\* Running.
C4_StartInIdle ==
    [][(ctrl = "Idle" /\ lastEvent' \in FullStartEvents)
        => IF C4_RejectCondition
           THEN /\ ctrl' = "Idle"
                /\ UNCHANGED <<futureVars, batchNo>>
                /\ actionAddFilesEnabled' /\ actionAddFolderEnabled'
                /\ actionClearTreeEnabled' /\ ~treeReadOnly'
           ELSE HasSvgzCollision(BuiltJobs)
                \/ (ctrl' = "Running" /\ lastEvent' = "Start:accepted"
                    /\ Len(futJobs') = Len(BuiltJobs))]_vars

C4_Witness ==
    /\ lastEvent = "Start:noCompressor"
    /\ ctrl = "Idle"
    /\ BuiltJobs # <<>>
    /\ savingMethod = "Overwrite"


\* the transitions of the controller that C5 lists
AllowedTransitions ==
    {<<"Idle", "Running">>, <<"Running", "Paused">>, <<"Paused", "Running">>,
     <<"Running", "Stopping">>, <<"Paused", "Stopping">>,
     <<"Running", "Idle">>, <<"Stopping", "Idle">>}

\* C5: the controller takes the listed transitions only, and a future is
\* given to the watcher only when the controller is Idle, so at most one
\* batch is in progress.
C5_OneBatchAtATime ==
    [][/\ ctrl' # ctrl => <<ctrl, ctrl'>> \in AllowedTransitions
       /\ batchNo' # batchNo => ctrl = "Idle"]_vars

\* the tree items that invocations in flight, or jobs of the watched
\* future, refer to
ReferencedItems ==
    (IF fRunning THEN {futJobs[j].treeItem : j \in 1..Len(futJobs)} ELSE {})
    \cup {o[2] : o \in orphans}

\* C6: while a dispatched batch has not had its completion signal handled
\* (the watched future is running, or invocations of an earlier future are
\* still in flight), tree editing is disabled, the view is read-only and
\* every item a job refers to is in the tree.
C6_TreeFrozenWhileDispatched ==
    (fRunning \/ orphans # {}) =>
        /\ ~actionAddFilesEnabled /\ ~actionAddFolderEnabled
        /\ ~actionClearTreeEnabled /\ treeReadOnly
        /\ ReferencedItems \subseteq InTree

\* C7: in a batch that is not cancelled every job is invoked at most once
\* and its result delivered at most once, exactly once each when the
\* completion signal is handled; while the Start button is shown for a
\* batch in progress no invocation starts; and the Start that resumes
\* leaves the job list and every job's state as they are and ends the pause.
C7_PauseResumeKeepsJobs ==
    [][/\ \A j \in 1..Len(futJobs') :
             /\ invocations'[j] <= 1 /\ deliveries'[j] <= 1
             /\ deliveries'[j] = 1 =>
                   (invocations'[j] = 1 /\ jobState'[j] = "done")
             /\ jobState'[j] = "queued" <=> invocations'[j] = 0
       /\ lastEvent' = "Finished:completed" =>
             \A j \in 1..Len(futJobs) :
                 invocations[j] = 1 /\ deliveries[j] = 1
       /\ (fRunning /\ ~fCanceled /\ ~pauseBtnVisible) =>
             (invocations' = invocations /\ batchNo' = batchNo)
       /\ lastEvent' = "Start:resumed" =>
             /\ UNCHANGED <<futJobs, jobState, jobResult, invocations,
                            deliveries, batchNo>>
             /\ ~fPaused']_vars

C7_Witness ==
    /\ lastEvent = "Start:resumed"
    /\ ctrl = "Running"
    /\ \E j \in 1..Len(futJobs) : jobState[j] = "queued"
    /\ \E j \in 1..Len(futJobs) : jobState[j] = "done"

\* C8: from the Stop to the handling of the completion signal no step
\* changes the cleaner data of an item, and no job that was still queued
\* is invoked.
C8_CancelKeepsResults ==
    [][((fRunning /\ fCanceled) \/ lastEvent' = "Stop") =>
          /\ itemData' = itemData
          /\ \A j \in 1..Len(jobState) :
                jobState[j] = "queued" =>
                    (j > Len(jobState') \/ jobState'[j] = "queued")]_vars

\* C9: when the completion signal of a batch that was not cancelled is
\* handled, the item of every job has the status of that job's result.
C9_TerminalStatusAtCompletion ==
    [][lastEvent' = "Finished:completed" =>
          \A j \in 1..Len(futJobs) :
              /\ jobResult[j] \in ResultKinds
              /\ itemData'[futJobs[j].treeItem].status = jobResult[j]]_vars

C9_Witness ==
    /\ lastEvent = "Finished:completed"
    /\ batchNo = 1
    /\ \E n, m \in InTree :
          /\ itemData[n].status = "Error"
          /\ itemData[m].status = "Warning"

\* C10: the completion signal of every accepted batch is eventually handled,
\* once, and the handling leaves the controller Idle: tree editing enabled,
\* Start shown instead of Pause, Stop disabled, progress bar hidden.
C10_CompletionHandled ==
    /\ \A b \in 1..MaxBatches : [](batchNo >= b => <>(b \in handled))
    /\ [][lastEvent' \in {"Finished:completed", "Finished:canceled"} =>
            /\ batchNo \notin handled
            /\ ctrl' = "Idle"
            /\ actionAddFilesEnabled' /\ actionAddFolderEnabled'
            /\ actionClearTreeEnabled' /\ ~treeReadOnly'
            /\ ~pauseBtnVisible' /\ ~actionStopEnabled'
            /\ ~progressVisible']_vars


\* the items genCleanData visits, in the order it visits them: the enabled,
\* checked items of a list, each folder followed by what is visited below it
RECURSIVE VisitOrder(_)
VisitOrder(list) ==
    IF list = <<>> THEN <<>>
    ELSE LET item == Head(list)
         IN  IF enabledOf[item] /\ checkOf[item] = "Checked"
             THEN <<item>> \o VisitOrder(childrenList(item))
                  \o VisitOrder(Tail(list))
             ELSE VisitOrder(Tail(list))

\* the root folder established when item n is visited: the first folder
\* visited before n, <<>> when no folder was
RootAt(n) ==
    LET v == VisitOrder(top)
        F == {i \in 1..Len(v) :
                /\ isFolder(v[i])
                /\ \E k \in 1..Len(v) : v[k] = n /\ i < k}
    IN  IF F = {} THEN <<>>
        ELSE NodePath(v[CHOOSE i \in F : \A j \in F : i <= j])

\* a path without its last character when that is 'z' or 'Z'
WithoutTrailingZ(p) ==
    IF p # <<>> /\ p[Len(p)] \in {"z", "Z"}
    THEN [i \in 1..(Len(p) - 1) |-> p[i]] ELSE p

\* the job of item n in a job list
JobOf(data, n) == data[CHOOSE i \in 1..Len(data) : data[i].treeItem = n]

\* C11: under the Selected-folder policy the output path of a job is the
\* output folder, a separator and the file's name when no root folder is
\* established at the visit of the file, and the output folder, a
\* separator, the root folder's own name, a separator and the path of the
\* file relative to the root folder once one is, one trailing 'z' or 'Z'
\* removed; /r/s/a.svg with root /r and output folder /o gives
\* /o/r/s/a.svg.
C11_SelectFolderPath ==
    (lastEvent = "Start:accepted" /\ savingMethod = "SelectFolder") =>
        /\ \A j \in 1..Len(futJobs) :
              LET n == futJobs[j].treeItem
                  R == RootAt(n)
              IN  futJobs[j].outputPath = WithoutTrailingZ(
                     IF R = <<>>
                     THEN outputFolder \o <<"/">> \o fileName(NodePath(n))
                     ELSE outputFolder \o <<"/">> \o dirName(R) \o <<"/">>
                          \o relativeFilePath(R, NodePath(n)))
        /\ (7 \in {futJobs[j].treeItem : j \in 1..Len(futJobs)}
            /\ RootAt(7) = <<"/", "r">>) =>
              JobOf(futJobs, 7).outputPath
                 = <<"/", "o", "/", "r", "/", "s", "/", "a", ".", "s", "v", "g">>

C11_Witness ==
    /\ lastEvent = "Start:accepted"
    /\ savingMethod = "SelectFolder"
    /\ \E j \in 1..Len(futJobs) : RootAt(futJobs[j].treeItem) = <<>>
    /\ \E j \in 1..Len(futJobs) :
          futJobs[j].treeItem = 7 /\ RootAt(7) = <<"/", "r">>

\* C12: under the Overwrite policy the output path of a job is its input
\* path, without the last character when that is 'z' or 'Z': /b/a.svg
\* resolves to /b/a.svg and /b/a.svgz to /b/a.svg.
C12_OverwritePath ==
    (lastEvent = "Start:accepted" /\ savingMethod = "Overwrite") =>
        \A j \in 1..Len(futJobs) :
            /\ futJobs[j].inputPath = NodePath(futJobs[j].treeItem)
            /\ futJobs[j].outputPath = WithoutTrailingZ(futJobs[j].inputPath)
            /\ futJobs[j].treeItem \in {1, 2} =>
                  futJobs[j].outputPath = NodePath(1)

C12_Witness ==
    /\ lastEvent = "Start:accepted"
    /\ savingMethod = "Overwrite"
    /\ \E j \in 1..Len(futJobs) : futJobs[j].treeItem = 2
    /\ \E j \in 1..Len(futJobs) :
          futJobs[j].outputPath = futJobs[j].inputPath


\* the outcomes of a Start that a pre-dispatch test rejected
RejectedStartEvents ==
    {"Start:invalidFolder", "Start:noPrefixSuffix", "Start:noCompressor",
     "Start:noFiles", "Start:duplicate"}

\* C13: a Start rejected by a pre-dispatch test leaves status, status text,
\* size-after, ratio and output path of every item as they were.
C13_RejectedStartKeepsResults ==
    [][lastEvent' \in RejectedStartEvents => itemData' = itemData]_vars


\* the segments of a path with every ".." resolved against the segment
\* before it
RECURSIVE ResolveDots(_, _)
ResolveDots(segs, acc) ==
    IF segs = <<>> THEN acc
    ELSE IF Head(segs) = <<".", ".">>
         THEN ResolveDots(Tail(segs),
                          IF acc = <<>> THEN acc
                          ELSE SubSeq(acc, 1, Len(acc) - 1))
         ELSE ResolveDots(Tail(segs), Append(acc, Head(segs)))

Resolved(path) == ResolveDots(Segments(path), <<>>)

\* the resolved path lies below the folder
InsideFolder(path, folder) ==
    LET p == Resolved(path)
        f == Resolved(folder)
    IN  Len(p) > Len(f) /\ SubSeq(p, 1, Len(f)) = f

\* C14: under the Selected-folder policy the output path of every job of a
\* dispatched batch, with its ".." segments resolved, lies inside the output
\* folder, and is not the input path of a job of the batch that lies
\* outside the output folder.
C14_OutputInsideOutputFolder ==
    (lastEvent = "Start:accepted" /\ savingMethod = "SelectFolder") =>
        \A j \in 1..Len(futJobs) :
            /\ InsideFolder(futJobs[j].outputPath, outputFolder)
            /\ \A k \in 1..Len(futJobs) :
                  ~InsideFolder(futJobs[k].inputPath, outputFolder) =>
                      Resolved(futJobs[j].outputPath)
                          # Resolved(futJobs[k].inputPath)

====
